---- MODULE Spec2Model ----
(***************************************************************************)
(* translator_for_youtube: the translator page (translator_ui.js) and the  *)
(* background tab manager (background.js) as state machines.               *)
(*                                                                         *)
(* Text is a sequence of string tokens.  A Korean literal of the source is *)
(* one token, written romanised (the original is in the comment beside     *)
(* it), so that String.prototype.includes on the phrases the code searches *)
(* for is token membership.                                                *)
(***************************************************************************)
EXTENDS Naturals, Sequences, FiniteSets, Bags, TLC

(* ------------------------------ bounds --------------------------------- *)
\* longest text the user types into the input area, in characters
MaxInputLen == 2
\* longest streamed response body, in characters
MaxBodyChars == 2
\* tab identifiers the browser hands out (the YouTube tab has the first)
MaxTabs == 3
\* background event handlers in progress at the same time
MaxHandlers == 2
\* requests of one kind (GET /models, GET /get_transcript) in flight at once
MaxPending == 2
\* injections of the content script into one document that are counted
MaxInjections == 3
\* the server process and its descendants, numbered from the server on
MaxProcs == 3

(* ------------------------------ text ----------------------------------- *)
Range(s) == {s[i] : i \in 1..Len(s)}
SeqsUpTo(S, n) == UNION {[1..k -> S] : k \in 0..n}
NULL == "null"

\* String.prototype.includes(tok)
Includes(s, tok) == tok \in Range(s)

IsSpace(c) == c = " "
RECURSIVE TrimLeft(_)
TrimLeft(s) == IF s # <<>> /\ IsSpace(Head(s)) THEN TrimLeft(Tail(s)) ELSE s
RECURSIVE TrimRight(_)
TrimRight(s) ==
    IF s # <<>> /\ IsSpace(s[Len(s)]) THEN TrimRight(SubSeq(s, 1, Len(s) - 1)) ELSE s
\* String.prototype.trim()
Trim(s) == TrimRight(TrimLeft(s))

\* what the user can type: every text over a blank and a letter
InputTexts == SeqsUpTo({" ", "x"}, MaxInputLen)

(* --------------------------- literals ---------------------------------- *)
\* '번역할 내용을 입력하거나 붙여넣으세요...'
PlaceholderText == <<"beonyeokhal naeyongeul ipryeokhageona butyeoneoeuseyo...">>
\* '자막을 불러오는 중입니다...'
TranscriptLoadingNotice == <<"jamageul bulleooneun jungimnida...">>
\* '자막을 불러오는 데 실패했습니다: ' / '자막을 불러올 수 없습니다.'
TranscriptText ==
    [failedPrefix |-> "jamageul bulleooneun de silpaehaetseumnida: ",
     generic      |-> "jamageul bulleool su eopseumnida.",
     loading      |-> "jamak roding jung...",
     loaded       |-> "jamak rodeu wanryo",
     failedStatus |-> "jamak roding silpae: "]

\* '로딩' and '없음': the two phrases the model validation searches for
RODING == "roding"
EOPSEUM == "eopseum"
\* '모델 로딩 중...', '사용 가능한 모델 없음', '모델 로딩 실패'
ModelLabel ==
    [loading |-> <<"model ", RODING, " jung...">>,
     none    |-> <<"sayong ganeunghan model ", EOPSEUM>>,
     failed  |-> <<"model ", RODING, " silpae">>]
\* status texts of loadModelsForProvider
ModelStatus ==
    [loading |-> <<"model mokrogeul bulleooneun jung...">>,
     none    |-> <<"sayong ganeunghan modeli eopseumnida">>,
     loaded  |-> <<"{n}", "gae model rodeu wanryo">>,
     notOk   |-> <<"{status}", ": model mokrogeul bulleool su eopseumnida.">>,
     failed  |-> <<"model mokrok roding silpae">>]

\* '번역할 내용을 입력해주세요' / '사용 가능한 모델을 먼저 선택해주세요'
ValidationMsg ==
    [empty |-> <<"beonyeokhal naeyongeul ipryeokhaejuseyo">>,
     model |-> <<"sayong ganeunghan modeleul meonjeo seontaekhaejuseyo">>]

\* '입력 오류' and '서버 내부 오류': the phrases the catch handler searches for
IPRYEOK_ORYU == "ipryeok oryu"
SEOBEO_NAEBU_ORYU == "seobeo naebu oryu"
FETCH == "fetch"
\* texts of handleRegularTranslation
RegularText ==
    [preparing     |-> <<"beonyeok junbijung...">>,
     \* '요청이 3분을 초과하여 취소되었습니다'
     timeoutStatus |-> <<"yocheongi 3buneul chogwahayeo chwisodoeeotseumnida">>,
     \* '알 수 없는 서버 오류'
     noDetail      |-> <<"al su eomneun seobeo oryu">>,
     \* '알 수 없는 오류가 발생했습니다. 다시 시도해주세요.'
     unknown       |-> <<"al su eomneun oryuga balsaenghaetseumnida. dasi sidohaejuseyo.">>,
     \* '요청 시간이 초과되었습니다. 인터넷 연결을 확인해주세요.'
     timedOut      |-> <<"yocheong sigani chogwadoeeotseumnida. inteonet yeongyeoreul hwaginhaejuseyo.">>,
     \* '서버에 연결할 수 없습니다. 서버가 실행 중인지 확인해주세요.'
     unreachable   |-> <<"seobeoe yeongyeolhal su eopseumnida. seobeoga silhaeng junginji hwaginhaejuseyo.">>,
     \* '서버에서 번역을 처리하던 중 오류가 발생했습니다. 잠시 후 다시 시도해주세요.'
     serverFailed  |-> <<"seobeoeseo beonyeogeul cheorihadeon jung oryuga balsaenghaetseumnida. jamsi hu dasi sidohaejuseyo.">>,
     \* '서버 응답 처리중...' / '결과 표시중...'
     processing    |-> "seobeo eungdap cheorijung...",
     showing       |-> "gyeolgwa pyosijung...",
     \* `${inputText.length}자 번역 완료`
     translated    |-> <<"{length}", "ja beonyeok wanryo">>,
     \* '준비 완료'
     ready         |-> <<"junbi wanryo">>]
\* the five phase labels of the progress ticker
progressSteps ==
    <<"seobeo yeongyeoljung...", "yocheong jeonsongjung...", "AI beonyeok cheorijung...",
      "gyeolgwa susinjung...", "wanryo cheorijung...">>

\* texts of handleStreamTranslation
StreamText ==
    [streaming   |-> <<"seuteuriming beonyeok jung...">>,
     done        |-> <<"seuteuriming wanryo">>,
     \* '스트리밍 연결에 실패했습니다.'
     connectFail |-> <<"seuteuriming yeongyeore silpaehaetseumnida.">>,
     \* '번역이 사용자에 의해 취소되었습니다.' / '번역 취소됨'
     cancelled   |-> <<"beonyeogi sayongjae uihae chwisodoeeotseumnida.">>,
     cancelStatus |-> <<"beonyeok chwisodoem">>,
     \* '오류: '
     errPrefix   |-> "oryu: "]

\* the 180000 ms of the request timeout, in seconds (one tick of the ticker)
TimeoutSecs == 180

(* ------------------- UTF-8 and the TextDecoder ------------------------- *)
\* the characters a streamed response is made of: 'a' (one byte) and '안' (three)
Chars == {"a", "U+C548"}
REPLACEMENT == "U+FFFD"
\* the UTF-8 encoding the backend puts on the wire
Utf8Bytes(ch) == IF ch = "a" THEN <<"61">> ELSE <<"EC", "95", "88">>
RECURSIVE Encode(_)
Encode(text) == IF text = <<>> THEN <<>> ELSE Utf8Bytes(Head(text)) \o Encode(Tail(text))
\* the response bodies the backend streams
BodyTexts == SeqsUpTo(Chars, MaxBodyChars)

IsAscii(b) == b \in {"61"}
IsLead3(b) == b \in {"EC"}
IsContinuation(b) == b \in {"95", "88"}
CharOf(bytes) == IF bytes = <<"61">> THEN "a"
                 ELSE IF bytes = <<"EC", "95", "88">> THEN "U+C548" ELSE REPLACEMENT

\* The UTF-8 decoder of a TextDecoder: `pending` holds the bytes of a
\* character that is not complete yet, `out` the characters decoded so far.
RECURSIVE DecodeFrom(_, _, _)
DecodeFrom(pending, bytes, out) ==
    IF bytes = <<>> THEN [pending |-> pending, out |-> out]
    ELSE LET b == Head(bytes) IN
         IF pending = <<>>
         THEN IF IsAscii(b) THEN DecodeFrom(<<>>, Tail(bytes), Append(out, CharOf(<<b>>)))
              ELSE IF IsLead3(b) THEN DecodeFrom(<<b>>, Tail(bytes), out)
              ELSE DecodeFrom(<<>>, Tail(bytes), Append(out, REPLACEMENT))
         ELSE IF IsContinuation(b)
              THEN IF Len(pending) = 2
                   THEN DecodeFrom(<<>>, Tail(bytes), Append(out, CharOf(Append(pending, b))))
                   ELSE DecodeFrom(Append(pending, b), Tail(bytes), out)
              \* an interrupted character: U+FFFD, and the byte is decoded again
              ELSE DecodeFrom(<<>>, bytes, Append(out, REPLACEMENT))

\* decoder.decode(value) without { stream: true }: every chunk is decoded on
\* its own and an incomplete character at its end is replaced
DecodeChunkNoStream(pending, chunk) ==
    LET r == DecodeFrom(<<>>, chunk, <<>>) IN
    [pending |-> <<>>,
     out |-> IF r.pending = <<>> THEN r.out ELSE Append(r.out, REPLACEMENT)]
\* decoder.decode(value, { stream: true })
DecodeChunk(pending, chunk) == DecodeFrom(pending, chunk, <<>>)

(* ------------------------------ state ---------------------------------- *)
VARIABLES
    page,       \* the translator page: DOM, timers, listeners
    ls,         \* localStorage
    flow,       \* the translation in flight: its closure and its position
    elapsed,    \* whole seconds since the single-shot request was dispatched
    stream,     \* the streamed response: text sent, bytes on the wire, decoder
    modelLoads, \* /models requests in flight
    transcripts,\* /get_transcript requests in flight
    outcome,    \* how the last click ended
    tabs,       \* background: the open tabs
    session,    \* background: chrome.storage.session
    handlers,   \* background: the bag of event handlers in progress
    lastTab,    \* background: what the last step of a handler did
    channel,    \* the response channel of the last showVideoId message
    yt,         \* the YouTube page as the content script sees and changes it
    host        \* the machine of the backend: processes, PID file, running script

uiVars == <<page, ls, flow, elapsed, stream, modelLoads, transcripts, outcome>>
bgVars == <<tabs, session, handlers, lastTab, channel>>
restVars == <<yt, host>>
vars == <<page, ls, flow, elapsed, stream, modelLoads, transcripts, outcome,
          tabs, session, handlers, lastTab, channel, yt, host>>

(* ------------------------- translator_ui.js ---------------------------- *)
\* updateStatus(message, type, showSpinner)
updateStatus(p, message, type, showSpinner) ==
    [p EXCEPT !.status =
        [msg |-> message, type |-> type, spinner |-> showSpinner,
         shown |-> showSpinner \/ type # "info",
         hideTimeout |-> ~showSpinner /\ type = "success"]]
\* The progress modal.  Its text and bar width are written again each time
\* it is shown and cannot be seen while it is hidden, so a hidden modal is
\* kept blank.
NoProgress == [shown |-> FALSE, text |-> "", bar |-> 0]
showProgress(p, message) == [p EXCEPT !.progress.shown = TRUE, !.progress.text = message]
hideProgress(p) == [p EXCEPT !.progress = NoProgress]
updateProgressBar(p, percentage) == [p EXCEPT !.progress.bar = percentage]

\* model-select.value: the value of the selected option, '' when none is
SelectedModel(p) == IF p.selIndex = 0 THEN <<>> ELSE p.options[p.selIndex]

(* ------------------------ page initialisation -------------------------- *)
Min(a, b) == IF a < b THEN a ELSE b
Providers == {"gemini", "openai"}
\* model names the backend serves (M1, M2) and one it serves no longer (MOld)
M1 == <<"models/m1">>
M2 == <<"m2">>
MOld == <<"m-old">>
\* the lists GET /models can return
ModelLists == {<<>>, <<M1>>, <<M1, M2>>}
\* the lists it returns for ?provider=...: each provider has its own models
MGpt == <<"gpt-m">>
ModelListsOf(provider) == IF provider = "gemini" THEN ModelLists ELSE {<<>>, <<MGpt>>}

NoErr == [name |-> "", message |-> <<>>]
\* the errors a failed fetch() and a failed response.json() reject with
FetchFailed == [name |-> "TypeError", message |-> <<"Failed to ", FETCH>>]
JsonInvalid == [name |-> "SyntaxError", message |-> <<"Unexpected token">>]
NoBody == [kind |-> "none", detail |-> <<>>, translated |-> <<>>]
\* no translation in flight
Idle == [pc |-> "idle", text |-> <<>>, model |-> <<>>, provider |-> "",
         phase |-> 0, http |-> 0, body |-> NoBody, err |-> NoErr]
NoStream == [text |-> <<>>, wire |-> <<>>, received |-> <<>>, pending |-> <<>>]

\* fetchAndDisplayTranscript up to its await
transcriptStart(p) ==
    updateStatus([p EXCEPT !.inputText = TranscriptLoadingNotice],
                 <<TranscriptText.loading>>, "loading", TRUE)
\* a loader that leaves the old options in place while it waits
loadModelsStartKeepOptions(p) ==
    updateStatus(p, ModelStatus.loading, "loading", TRUE)
\* loadModelsForProvider up to its await
loadModelsStart(p) ==
    updateStatus([p EXCEPT !.options = <<ModelLabel.loading>>, !.selIndex = 1],
                 ModelStatus.loading, "loading", TRUE)

\* the page as the HTML gives it
BlankPage(hasVideo) ==
    [hasVideo |-> hasVideo, inputText |-> <<>>, focused |-> FALSE,
     editable |-> TRUE, disabled |-> FALSE, output |-> <<>>,
     status |-> [msg |-> <<>>, type |-> "info", spinner |-> FALSE,
                 shown |-> FALSE, hideTimeout |-> FALSE],
     progress |-> NoProgress,
     options |-> <<>>, selIndex |-> 0, streamingChk |-> FALSE, provider |-> "gemini",
     timestampChk |-> FALSE,
     timer |-> FALSE, ticker |-> FALSE, aborted |-> FALSE,
     unloadListener |-> FALSE, successTimer |-> FALSE]

\* the DOMContentLoaded handler
DOMContentLoaded(hasVideo, store) ==
    LET p1 == [BlankPage(hasVideo) EXCEPT
                  !.timestampChk = store.show_timestamp,
                  !.streamingChk = store.use_streaming,
                  !.provider = IF store.lastUsedProvider = NULL THEN "gemini"
                               ELSE store.lastUsedProvider]
        p2 == IF hasVideo THEN transcriptStart(p1)
              ELSE [p1 EXCEPT !.inputText = PlaceholderText]
    IN loadModelsStart(p2)

\* what localStorage can hold when the page is opened
Stores == [lastUsedProvider : {NULL, "openai"}, lastUsedModel : {<<>>, M1, MOld},
           use_streaming : BOOLEAN, show_timestamp : {FALSE}]
FreshStore == [lastUsedProvider |-> NULL, lastUsedModel |-> <<>>,
               use_streaming |-> FALSE, show_timestamp |-> FALSE]

(* ----------------------------- content.js ------------------------------ *)
\* The URLs of the YouTube tab: a watch page with a video id, a watch page
\* without one, any other page.
YtUrls == {"watch?v", "watch", "other"}
\* a freshly loaded watch page: no flag, no observer, no player controls yet
YtLoaded ==
    [flag |-> FALSE, observers |-> 0, buttons |-> 0, controls |-> FALSE,
     url |-> "watch?v", valid |-> TRUE, manifest |-> FALSE, injections |-> 0, sent |-> 0]

\* createSimpleButton
createSimpleButton(y) ==
    IF y.buttons > 0 THEN y
    ELSE IF ~y.controls THEN y
    ELSE [y EXCEPT !.buttons = @ + 1]

\* a content script without the hasMyTranslatorContentScript flag
contentScriptNoFlag(y) ==
    createSimpleButton([y EXCEPT !.observers = @ + 1])
\* one run of content.js
contentScript(y) ==
    IF y.flag THEN y
    ELSE createSimpleButton([y EXCEPT !.flag = TRUE, !.observers = @ + 1])

\* the callbacks of the installed observers after a DOM mutation
RECURSIVE observerCallbacks(_, _)
observerCallbacks(y, n) ==
    IF n = 0 THEN y ELSE observerCallbacks(createSimpleButton(y), n - 1)

\* the messages the button's click listener sends
clickListener(y) ==
    IF y.url = "watch?v" THEN (IF y.valid THEN 1 ELSE 0) ELSE 0

Injected(y) == [contentScript(y) EXCEPT !.injections = Min(@ + 1, MaxInjections)]

\* the injection the manifest asks for, once per document
ManifestInjection ==
    /\ yt.valid /\ ~yt.manifest
    /\ yt' = [Injected(yt) EXCEPT !.manifest = TRUE]
    /\ UNCHANGED <<uiVars, bgVars, host>>

\* The page navigates without a reload (history.pushState); the background's
\* onHistoryStateUpdated listener injects content.js when the new URL is a
\* watch URL.
HistoryStateUpdated ==
    /\ \E url \in YtUrls \ {yt.url} :
          LET y == [yt EXCEPT !.url = url] IN
          yt' = IF yt.valid /\ url \in {"watch?v", "watch"} THEN Injected(y) ELSE y
    /\ UNCHANGED <<uiVars, bgVars, host>>

\* YouTube changes the DOM: it renders the player controls, removes them
\* (and the button in them), removes the button alone, or changes something
\* else; the observers' callbacks follow.
Mutation ==
    /\ \E y \in {[yt EXCEPT !.controls = TRUE],
                 [yt EXCEPT !.controls = FALSE, !.buttons = 0],
                 [yt EXCEPT !.buttons = 0], yt} :
          yt' = observerCallbacks(y, y.observers)
    /\ yt' # yt
    /\ UNCHANGED <<uiVars, bgVars, host>>

\* the extension is reloaded or removed while the page stays open
ContextInvalidated ==
    /\ yt.valid
    /\ yt' = [yt EXCEPT !.valid = FALSE]
    /\ UNCHANGED <<uiVars, bgVars, host>>

\* the user clicks the translator button
ClickButton ==
    /\ yt.buttons > 0
    /\ yt' = [yt EXCEPT !.sent = clickListener(yt)]
    /\ UNCHANGED <<uiVars, bgVars, host>>

(* ----------------- the start and stop scripts (PowerShell) -------------- *)
\* The pid the PID file holds when the server wrote it, and the pid of a
\* server a start script launches.  Process p + 1 is the child of process p.
ServerPid == 1
NewPid == MaxProcs + 1
Procs == ServerPid..MaxProcs

\* no script has run
HostOff ==
    [script |-> "none", variant |-> 1, force |-> FALSE, pc |-> "done",
     pidFile |-> 0, pidFile0 |-> 0, alive |-> {}, stubborn |-> {},
     listening |-> FALSE, uvicorn |-> FALSE, exit |-> "none", message |-> "",
     started |-> FALSE, todo |-> <<>>, attempted |-> <<>>]
\* The machine when a script is run: which of the two versions of the
\* script and with -Force or not (the older versions take no parameter),
\* whether app.pid exists, which processes run, which of them Stop-Process
\* cannot end, whether the server process holds port 5000 while it runs, and
\* whether its command line is one the uvicorn check matches.
Hosts(script) ==
    {[HostOff EXCEPT !.script = script, !.variant = v, !.force = f,
                     !.pc = IF script = "start" THEN "port" ELSE "read",
                     !.pidFile = pf, !.pidFile0 = pf, !.alive = a, !.stubborn = st,
                     !.listening = l, !.uvicorn = u] :
        v \in {1, 2}, f \in BOOLEAN, pf \in {0, ServerPid}, a \in SUBSET Procs,
        st \in SUBSET Procs, l \in BOOLEAN, u \in BOOLEAN}
\* Stop-Process: the process ends unless it cannot be ended
StopProcess(h, pid) ==
    IF pid \in h.stubborn THEN h ELSE [h EXCEPT !.alive = @ \ {pid}]
Fail(h, message) == [h EXCEPT !.pc = "done", !.exit = "error", !.message = message]

\* Get-ChildProcesses: the running descendants, each child before its own
RECURSIVE GetChildProcesses(_, _)
GetChildProcesses(alive, ParentId) ==
    IF ParentId + 1 \in alive
    THEN <<ParentId + 1>> \o GetChildProcesses(alive, ParentId + 1)
    ELSE <<>>

\* a running process ends by itself
ProcessExits ==
    /\ host.pc # "done"
    /\ \E pid \in host.alive :
          host' = [host EXCEPT !.alive = @ \ {pid}, !.stubborn = @ \ {pid}]
    /\ UNCHANGED <<uiVars, bgVars, yt>>

\* start script: the check of port 5000
StartPortCheck ==
    /\ host.pc = "port"
    /\ host' = IF host.listening /\ ServerPid \in host.alive
               THEN Fail(host, "port in use") ELSE [host EXCEPT !.pc = "pid"]
    /\ UNCHANGED <<uiVars, bgVars, yt>>

\* start script: the check of the PID file.  The 'already running' error is
\* thrown inside the try block of the check; its catch block writes a
\* warning, the PID file is removed and the script goes on.
StartPidCheck ==
    /\ host.pc = "pid"
    /\ LET running == host.pidFile # 0 /\ host.pidFile \in host.alive
           h1 == IF running /\ host.variant = 1 /\ host.force
                 THEN StopProcess(host, host.pidFile) ELSE host
       IN host' = [h1 EXCEPT !.pc = "uvicorn", !.pidFile = 0,
                             !.message = IF running /\ ~(host.variant = 1 /\ host.force)
                                         THEN "warning: already running" ELSE @]
    /\ UNCHANGED <<uiVars, bgVars, yt>>

\* start script: the search for python processes whose command line names
\* uvicorn and the port
StartUvicornCheck ==
    /\ host.pc = "uvicorn"
    /\ host' = IF host.uvicorn /\ ServerPid \in host.alive
               THEN IF host.variant = 1 /\ host.force
                    THEN [StopProcess(host, ServerPid) EXCEPT !.pc = "launch"]
                    ELSE Fail(host, "found uvicorn process")
               ELSE [host EXCEPT !.pc = "launch"]
    /\ UNCHANGED <<uiVars, bgVars, yt>>

\* start script: Start-Process, two seconds of sleep, and the PID file
StartLaunch ==
    /\ host.pc = "launch"
    /\ \E HasExited \in BOOLEAN :
          host' = IF HasExited
                  THEN [Fail(host, "failed to start") EXCEPT !.started = TRUE]
                  ELSE [host EXCEPT !.pc = "done", !.exit = "ok", !.started = TRUE,
                                    !.alive = @ \cup {NewPid}, !.pidFile = NewPid]
    /\ UNCHANGED <<uiVars, bgVars, yt>>

\* stop script: Test-PidFile and the check that the process runs
StopRead ==
    /\ host.pc = "read"
    /\ host' = IF host.pidFile = 0
               THEN [host EXCEPT !.pc = "done", !.exit = "ok", !.message = "no PID file"]
               ELSE IF host.pidFile \notin host.alive
               THEN [host EXCEPT !.pc = "done", !.exit = "ok", !.pidFile = 0,
                                 !.message = "not found"]
               ELSE [host EXCEPT !.pc = "children",
                                 !.todo = GetChildProcesses(host.alive, host.pidFile)]
    /\ UNCHANGED <<uiVars, bgVars, yt>>

\* stop script: the loop over the child processes, one child per step
StopChild ==
    /\ host.pc = "children"
    /\ host' = IF host.todo = <<>> THEN [host EXCEPT !.pc = "main"]
               ELSE [StopProcess(host, Head(host.todo)) EXCEPT
                        !.todo = Tail(@), !.attempted = Append(@, Head(host.todo)),
                        !.exit = IF Head(host.todo) \in host.alive \cap host.stubborn
                                 THEN "error" ELSE @]
    /\ UNCHANGED <<uiVars, bgVars, yt>>

\* stop script: the main process
StopMain ==
    /\ host.pc = "main"
    /\ host' = [StopProcess(host, host.pidFile) EXCEPT
                  !.pc = "cleanup", !.attempted = Append(@, host.pidFile),
                  !.exit = IF host.pidFile \in host.alive \cap host.stubborn
                           THEN "error" ELSE @,
                  !.message = IF host.pidFile \in host.alive \cap host.stubborn
                              THEN "could not be stopped" ELSE @]
    /\ UNCHANGED <<uiVars, bgVars, yt>>

\* stop script: the removal of the PID file and the exit
StopCleanup ==
    /\ host.pc = "cleanup"
    /\ host' = [host EXCEPT !.pc = "done", !.pidFile = 0,
                            !.exit = IF host.variant = 1 /\ @ = "error" THEN "error"
                                     ELSE "ok"]
    /\ UNCHANGED <<uiVars, bgVars, yt>>

\* the background process before any event: the YouTube tab is open
YouTubeTab == 1
BgStart(hosts) ==
    /\ tabs = [urls |-> (YouTubeTab :> <<"youtube.com/watch">>),
               active |-> YouTubeTab, nextId |-> YouTubeTab + 1]
    /\ session = [translatorTabId |-> 0]
    /\ handlers = EmptyBag
    /\ lastTab = [op |-> "none", id |-> 0, ok |-> FALSE, via |-> "none"]
    /\ channel = "none"
    /\ yt = YtLoaded
    /\ host \in hosts
BgInit == BgStart({HostOff})

\* the page after DOMContentLoaded, opened with or without a videoId in its
\* URL (videos) and with one of these localStorage contents (stores)
PageInit(videos, stores) ==
    /\ ls \in stores
    /\ \E hasVideo \in videos :
          /\ page = DOMContentLoaded(hasVideo, ls)
          /\ transcripts = IF hasVideo THEN {[preserve |-> page.timestampChk, n |-> 1]}
                           ELSE {}
    /\ modelLoads = {[provider |-> page.provider, sel |-> ls.lastUsedModel, n |-> 1]}
    /\ flow = Idle
    /\ elapsed = 0
    /\ stream = NoStream
    /\ outcome = "none"

\* no promise reaction is waiting to run: between two tasks the microtask
\* queue is empty
Settled == flow.pc \notin {"r_rejected", "s_rejected"}

(* ------------------------ user and page events ------------------------- *)
\* inputDiv.onfocus / inputDiv.onblur, installed when the URL has no videoId
onfocus(p) ==
    IF ~p.hasVideo /\ Trim(p.inputText) = PlaceholderText
    THEN [p EXCEPT !.focused = TRUE, !.inputText = <<>>]
    ELSE [p EXCEPT !.focused = TRUE]
onblur(p) ==
    IF ~p.hasVideo /\ Trim(p.inputText) = <<>>
    THEN [p EXCEPT !.focused = FALSE, !.inputText = PlaceholderText]
    ELSE [p EXCEPT !.focused = FALSE]

Focus ==
    /\ Settled /\ page.editable /\ ~page.focused
    /\ page' = onfocus(page)
    /\ UNCHANGED <<ls, flow, elapsed, stream, modelLoads, transcripts, outcome, bgVars, restVars>>

Blur ==
    /\ Settled /\ page.focused
    /\ page' = onblur(page)
    /\ UNCHANGED <<ls, flow, elapsed, stream, modelLoads, transcripts, outcome, bgVars, restVars>>

\* the user types into the focused, editable input area
EditInput ==
    /\ Settled /\ page.editable /\ page.focused
    /\ \E t \in InputTexts : page' = [page EXCEPT !.inputText = t]
    /\ UNCHANGED <<ls, flow, elapsed, stream, modelLoads, transcripts, outcome, bgVars, restVars>>

\* the change handler of the streaming checkbox
ToggleStreaming ==
    /\ Settled
    /\ page' = [page EXCEPT !.streamingChk = ~page.streamingChk]
    /\ ls' = [ls EXCEPT !.use_streaming = ~page.streamingChk]
    /\ UNCHANGED <<flow, elapsed, stream, modelLoads, transcripts, outcome, bgVars, restVars>>

\* the user picks an option of the model select
SelectModel ==
    /\ Settled
    /\ \E i \in 1..Len(page.options) :
          /\ i # page.selIndex
          /\ page' = [page EXCEPT !.selIndex = i]
    /\ UNCHANGED <<ls, flow, elapsed, stream, modelLoads, transcripts, outcome, bgVars, restVars>>

\* the status indicator's fade-out, 3 s after a success message
StatusHide ==
    /\ Settled /\ page.status.hideTimeout
    /\ page' = [page EXCEPT !.status.hideTimeout = FALSE, !.status.shown = FALSE]
    /\ UNCHANGED <<ls, flow, elapsed, stream, modelLoads, transcripts, outcome, bgVars, restVars>>

(* ----------------------- loadModelsForProvider ------------------------- *)
IndexOf(list, x) ==
    IF \E i \in 1..Len(list) : list[i] = x
    THEN CHOOSE i \in 1..Len(list) : list[i] = x /\ \A j \in 1..(i - 1) : list[j] # x
    ELSE 0
\* a loader without the branch for the empty list
modelsLoadedNoEmptyCase(p, models, selectedModelName) ==
    updateStatus(
       [p EXCEPT !.options = models,
                 !.selIndex = IF selectedModelName # <<>>
                              THEN IndexOf(models, selectedModelName)
                              ELSE Min(1, Len(models))],
       ModelStatus.loaded, "success", FALSE)
\* the rest of loadModelsForProvider when /models answers with `models`
modelsLoaded(p, models, selectedModelName) ==
    IF Len(models) = 0
    THEN updateStatus([p EXCEPT !.options = <<ModelLabel.none>>, !.selIndex = 1],
                      ModelStatus.none, "error", FALSE)
    ELSE updateStatus(
            [p EXCEPT !.options = models,
                      \* modelSelect.value = name: an unknown name selects nothing
                      !.selIndex = IF selectedModelName # <<>>
                                   THEN IndexOf(models, selectedModelName) ELSE 1],
            ModelStatus.loaded, "success", FALSE)
\* its catch block
modelsFailed(p, message) ==
    updateStatus([p EXCEPT !.options = <<ModelLabel.failed>>, !.selIndex = 1],
                 IF message = <<>> THEN ModelStatus.failed ELSE message, "error", FALSE)

\* the request r is answered with the list `models`
ModelsReply(r, models) ==
    /\ Settled /\ r \in modelLoads
    /\ modelLoads' = modelLoads \ {r}
    /\ page' = modelsLoaded(page, models, r.sel)
    /\ UNCHANGED <<ls, flow, elapsed, stream, transcripts, outcome, bgVars, restVars>>

\* the request r fails: a non-OK response or no connection
ModelsError(r, message) ==
    /\ Settled /\ r \in modelLoads
    /\ modelLoads' = modelLoads \ {r}
    /\ page' = modelsFailed(page, message)
    /\ UNCHANGED <<ls, flow, elapsed, stream, transcripts, outcome, bgVars, restVars>>

ModelsResponse ==
    \E r \in modelLoads :
       \/ \E models \in ModelListsOf(r.provider) : ModelsReply(r, models)
       \/ \E message \in {ModelStatus.notOk, FetchFailed.message} : ModelsError(r, message)

(* --------------------- fetchAndDisplayTranscript ----------------------- *)
\* the transcripts GET /get_transcript returns for preserve_timestamps=...,
\* and the `detail` fields of its error bodies
TranscriptBodies == {<<>>, <<"transcript">>}
TranscriptsOf(preserve) ==
    IF preserve THEN {<<"[00:01] ">> \o t : t \in TranscriptBodies} ELSE TranscriptBodies
TranscriptDetails == {<<>>, <<"no captions">>}
transcriptLoaded(p, transcript) ==
    updateStatus([p EXCEPT !.inputText = <<"{title} - YouTube", "{url}">> \o transcript],
                 <<TranscriptText.loaded>>, "success", FALSE)
\* the Error thrown for a non-OK response whose JSON body has this detail
TranscriptError(detail) ==
    [name |-> "Error",
     message |-> IF detail = <<>> THEN <<TranscriptText.generic>> ELSE detail]
\* the catch block
transcriptFailed(p, error) ==
    updateStatus([p EXCEPT !.inputText = <<"{title} - YouTube", "{url}",
                                           TranscriptText.failedPrefix>> \o error.message],
                 <<TranscriptText.failedStatus>> \o error.message, "error", FALSE)
\* What the try block can throw: the Error of a non-OK response, the
\* rejection of response.json() on a body that is no JSON, the rejection of
\* fetch() itself.
TranscriptErrors ==
    {TranscriptError(d) : d \in TranscriptDetails} \cup {JsonInvalid, FetchFailed}

\* the number a new request is told apart by
FreshId(requests) ==
    CHOOSE n \in 1..(Cardinality(requests) + 1) :
       /\ \A r \in requests : r.n # n
       /\ \A m \in 1..(n - 1) : \E r \in requests : r.n = m

\* the request r is answered with a transcript
TranscriptReply(r, transcript) ==
    /\ Settled /\ r \in transcripts
    /\ transcripts' = transcripts \ {r}
    /\ page' = transcriptLoaded(page, transcript)
    /\ UNCHANGED <<ls, flow, elapsed, stream, modelLoads, outcome, bgVars, restVars>>

\* the request r fails
TranscriptFailure(r, error) ==
    /\ Settled /\ r \in transcripts
    /\ transcripts' = transcripts \ {r}
    /\ page' = transcriptFailed(page, error)
    /\ UNCHANGED <<ls, flow, elapsed, stream, modelLoads, outcome, bgVars, restVars>>

TranscriptResponse ==
    \E r \in transcripts :
       \/ \E t \in TranscriptsOf(r.preserve) : TranscriptReply(r, t)
       \/ \E error \in TranscriptErrors : TranscriptFailure(r, error)

(* --------------------------- the settings ------------------------------ *)
\* a change handler that stores nothing
timestampChangedNotStored(store, checked) == store
\* localStorage.setItem('show_timestamp', timestampCheckbox.checked)
timestampChanged(store, checked) == [store EXCEPT !.show_timestamp = checked]

\* the change handler of the timestamp checkbox
ToggleTimestamp ==
    /\ Settled
    /\ page.hasVideo => Cardinality(transcripts) < MaxPending
    /\ LET p1 == [page EXCEPT !.timestampChk = ~page.timestampChk] IN
       /\ ls' = timestampChanged(ls, p1.timestampChk)
       /\ IF page.hasVideo
          THEN /\ page' = transcriptStart(p1)
               /\ transcripts' = transcripts \cup
                     {[preserve |-> p1.timestampChk, n |-> FreshId(transcripts)]}
          ELSE /\ page' = p1
               /\ UNCHANGED transcripts
    /\ UNCHANGED <<flow, elapsed, stream, modelLoads, outcome, bgVars, restVars>>

\* the change handler of the provider select
ChangeProvider ==
    /\ Settled
    /\ Cardinality(modelLoads) < MaxPending
    /\ \E provider \in Providers \ {page.provider} :
          /\ page' = loadModelsStart([page EXCEPT !.provider = provider])
          /\ modelLoads' = modelLoads \cup
                {[provider |-> provider, sel |-> <<>>, n |-> FreshId(modelLoads)]}
    /\ UNCHANGED <<ls, flow, elapsed, stream, transcripts, outcome, bgVars, restVars>>

(* --------------------- handleRegularTranslation ------------------------ *)
\* what POST /translate can answer
Statuses == {200, 400, 404, 500}
Ok(status) == status >= 200 /\ status <= 299
\* the `detail` of an error body: absent, or a text (one of them holds the
\* phrase the catch handler searches for)
Details == {<<>>, <<"empty text">>, <<"quota">>, <<"bad ", IPRYEOK_ORYU>>}
Translations == {<<"translated text">>}
\* The body that follows the headers: JSON, no JSON, a connection that
\* breaks, or a body that never completes.
BodiesOf(status) ==
    (IF Ok(status)
     THEN {[kind |-> "json", detail |-> <<>>, translated |-> t] : t \in Translations}
     ELSE {[kind |-> "json", detail |-> d, translated |-> <<>>] : d \in Details})
    \cup {[NoBody EXCEPT !.kind = k] : k \in {"invalid", "broken", "stalled"}}

AbortError == [name |-> "AbortError", message |-> <<"The user aborted a request.">>]
BodyFailed == [name |-> "TypeError", message |-> <<"network error">>]

\* a validation that accepts any model selection
ValidateRegularNoModelCheck(inputText, selectedModel) ==
    IF Trim(inputText) = <<>> THEN "empty" ELSE "ok"
\* the validation at the head of handleRegularTranslation: "empty", "model" or "ok"
ValidateRegular(inputText, selectedModel) ==
    IF Trim(inputText) = <<>> THEN "empty"
    ELSE IF selectedModel = <<>> \/ Includes(selectedModel, RODING)
            \/ Includes(selectedModel, EOPSEUM) THEN "model"
    ELSE "ok"

\* a dispatch that leaves the button enabled
regularDispatchEnabled(p) ==
    LET p1 == updateStatus([p EXCEPT !.editable = FALSE],
                           RegularText.preparing, "loading", TRUE)
        p2 == updateProgressBar(showProgress(p1, progressSteps[1]), 10)
    IN [p2 EXCEPT !.aborted = FALSE, !.timer = TRUE, !.ticker = TRUE]
\* from the disabling of the controls to the start of the ticker
regularDispatch(p) ==
    LET p1 == updateStatus([p EXCEPT !.disabled = TRUE, !.editable = FALSE],
                           RegularText.preparing, "loading", TRUE)
        p2 == updateProgressBar(showProgress(p1, progressSteps[1]), 10)
    IN [p2 EXCEPT !.aborted = FALSE, !.timer = TRUE, !.ticker = TRUE]

\* a timeout callback without controller.abort()
timeoutCallbackNoAbort(p) ==
    LET p1 == updateStatus([p EXCEPT !.timer = FALSE],
                           RegularText.timeoutStatus, "error", FALSE)
    IN [hideProgress(p1) EXCEPT !.disabled = FALSE, !.editable = TRUE]
\* the setTimeout callback
timeoutCallback(p) ==
    LET p1 == updateStatus([p EXCEPT !.aborted = TRUE, !.timer = FALSE],
                           RegularText.timeoutStatus, "error", FALSE)
    IN [hideProgress(p1) EXCEPT !.disabled = FALSE, !.editable = TRUE]

\* a ticker that never advances
NextPhaseStuck(phase) == phase
\* the setInterval callback: progressPhase after it, and the page
NextPhase(phase) == Min(phase + 1, Len(progressSteps) - 1)
tickerCallback(p, phase) ==
    updateProgressBar(showProgress(p, progressSteps[NextPhase(phase) + 1]),
                      10 + NextPhase(phase) * 20)

\* the first .then, up to the branch on response.ok
thenResponse(p) ==
    showProgress(updateProgressBar([p EXCEPT !.timer = FALSE], 70), RegularText.processing)

\* the Error the first .then throws for a non-OK response with this detail
HttpError(status, detail) ==
    LET errorMessage == IF detail = <<>> THEN RegularText.noDetail ELSE detail IN
    [name |-> "Error",
     message |-> IF status = 400 THEN <<IPRYEOK_ORYU, ": ">> \o errorMessage
                 ELSE IF status = 500 THEN <<SEOBEO_NAEBU_ORYU, ": ">> \o errorMessage
                 ELSE <<"HTTP ", ToString(status), ": ">> \o errorMessage]

\* a second .then that remembers nothing
rememberNothing(store, selectedProvider, selectedModel) == store
\* the two localStorage.setItem calls of the second .then
rememberLastUsed(store, selectedProvider, selectedModel) ==
    [store EXCEPT !.lastUsedProvider = selectedProvider, !.lastUsedModel = selectedModel]
\* the second .then
thenData(p, translated) ==
    [updateProgressBar(showProgress(p, RegularText.showing), 100) EXCEPT
        !.output = translated, !.successTimer = TRUE]

\* a catch handler without the '입력 오류' branch
UserFriendlyMessageNoPassThrough(error) ==
    IF error.name = "AbortError" THEN RegularText.timedOut
    ELSE IF error.name = "TypeError" /\ Includes(error.message, FETCH)
         THEN RegularText.unreachable
    ELSE IF Includes(error.message, SEOBEO_NAEBU_ORYU) THEN RegularText.serverFailed
    ELSE RegularText.unknown
\* the message the catch handler chooses
UserFriendlyMessage(error) ==
    IF error.name = "AbortError" THEN RegularText.timedOut
    ELSE IF error.name = "TypeError" /\ Includes(error.message, FETCH)
         THEN RegularText.unreachable
    ELSE IF Includes(error.message, IPRYEOK_ORYU) THEN error.message
    ELSE IF Includes(error.message, SEOBEO_NAEBU_ORYU) THEN RegularText.serverFailed
    ELSE RegularText.unknown

\* the .catch
catchHandler(p, error) ==
    updateStatus([hideProgress(p) EXCEPT !.ticker = FALSE,
                                         !.output = UserFriendlyMessage(error)],
                 UserFriendlyMessage(error), "error", FALSE)

\* a .finally that leaves the controls as they are
finallyKeepDisabled(p) == [p EXCEPT !.ticker = FALSE, !.timer = FALSE]
\* a .finally without clearInterval
finallyKeepTicker(p) ==
    updateStatus([p EXCEPT !.timer = FALSE, !.disabled = FALSE, !.editable = TRUE],
                 RegularText.ready, "success", FALSE)
\* the .finally
finallyHandler(p) ==
    LET p1 == [p EXCEPT !.ticker = FALSE, !.timer = FALSE,
                        !.disabled = FALSE, !.editable = TRUE]
    IN IF p1.disabled = FALSE THEN updateStatus(p1, RegularText.ready, "success", FALSE)
       ELSE p1

\* handleRegularTranslation, from the click to the fetch
HandleRegular(p) ==
    LET v == ValidateRegular(p.inputText, SelectedModel(p)) IN
    IF v = "ok"
    THEN /\ page' = regularDispatch(p)
         /\ flow' = [Idle EXCEPT !.pc = "r_fetch", !.text = p.inputText,
                                 !.model = SelectedModel(p), !.provider = p.provider]
         /\ outcome' = "inflight"
    ELSE /\ page' = updateStatus(p, ValidationMsg[v], "error", FALSE)
         /\ flow' = flow
         /\ outcome' = "rejected"

\* one second passes while the ticker runs
Tick ==
    /\ Settled /\ page.ticker
    /\ page.timer => elapsed + 1 < TimeoutSecs
    /\ page' = tickerCallback(page, flow.phase)
    /\ flow' = [flow EXCEPT !.phase = NextPhase(flow.phase)]
    /\ elapsed' = IF page.timer THEN elapsed + 1 ELSE elapsed
    /\ UNCHANGED <<ls, stream, modelLoads, transcripts, outcome, bgVars, restVars>>

\* the 180th second passes with the timeout still armed
TimeoutFires ==
    /\ Settled /\ page.timer
    /\ elapsed + 1 = TimeoutSecs
    /\ page' = timeoutCallback(page)
    /\ elapsed' = TimeoutSecs
    \* controller.abort() rejects the pending fetch
    /\ flow' = IF page'.aborted /\ flow.pc = "r_fetch"
               THEN [flow EXCEPT !.pc = "r_rejected", !.err = AbortError] ELSE flow
    /\ UNCHANGED <<ls, stream, modelLoads, transcripts, outcome, bgVars, restVars>>

\* .catch and .finally run for the aborted fetch
RegularRejected ==
    /\ flow.pc = "r_rejected"
    /\ page' = finallyHandler(catchHandler(page, flow.err))
    /\ flow' = Idle
    /\ elapsed' = 0
    /\ outcome' = "timeout"
    /\ UNCHANGED <<ls, stream, modelLoads, transcripts, bgVars, restVars>>

\* the connection fails before any response: .catch and .finally
RegularNetworkError ==
    /\ flow.pc = "r_fetch"
    /\ page' = finallyHandler(catchHandler(page, FetchFailed))
    /\ flow' = Idle
    /\ elapsed' = 0
    /\ outcome' = "failed"
    /\ UNCHANGED <<ls, stream, modelLoads, transcripts, bgVars, restVars>>

\* the response headers arrive: the first .then runs and response.json()
\* waits for the body
RegularResponse ==
    /\ flow.pc = "r_fetch"
    /\ \E status \in Statuses : \E body \in BodiesOf(status) :
          flow' = [flow EXCEPT !.pc = "r_body", !.http = status, !.body = body]
    /\ page' = thenResponse(page)
    /\ elapsed' = 0
    /\ UNCHANGED <<ls, stream, modelLoads, transcripts, outcome, bgVars, restVars>>

\* what response.json() settles with: "data" or the error the chain rejects with
BodyError(f) ==
    IF f.body.kind = "invalid" THEN JsonInvalid
    ELSE IF f.body.kind = "broken" THEN BodyFailed
    ELSE IF ~Ok(f.http) THEN HttpError(f.http, f.body.detail)
    ELSE NoErr

\* the body arrives (a stalled body never does).  OK and JSON: the second
\* .then, then .finally.  Otherwise .catch, then .finally.
RegularBody ==
    /\ flow.pc = "r_body" /\ flow.body.kind # "stalled"
    /\ IF BodyError(flow) = NoErr
       THEN /\ page' = finallyHandler(thenData(page, flow.body.translated))
            /\ ls' = rememberLastUsed(ls, flow.provider, flow.model)
            /\ outcome' = "succeeded"
       ELSE /\ page' = finallyHandler(catchHandler(page, BodyError(flow)))
            /\ ls' = ls
            /\ outcome' = "failed"
    /\ flow' = Idle
    /\ UNCHANGED <<elapsed, stream, modelLoads, transcripts, bgVars, restVars>>

\* the 500 ms timer of the second .then
SuccessTimerFires ==
    /\ Settled /\ page.successTimer
    /\ page' = updateStatus([hideProgress(page) EXCEPT !.successTimer = FALSE],
                            RegularText.translated, "success", FALSE)
    /\ UNCHANGED <<ls, flow, elapsed, stream, modelLoads, transcripts, outcome, bgVars, restVars>>

(* ---------------------- handleStreamTranslation ------------------------ *)
\* a validation without trim()
ValidateStreamNoTrim(inputText) == IF inputText = <<>> THEN "empty" ELSE "ok"
\* the validation at the head of handleStreamTranslation
ValidateStream(inputText) == IF Trim(inputText) = <<>> THEN "empty" ELSE "ok"

\* a streaming dispatch that arms the 180 s timeout as well
streamDispatchWithTimeout(p) ==
    LET p1 == updateStatus([p EXCEPT !.disabled = TRUE, !.editable = FALSE, !.output = <<>>],
                           StreamText.streaming, "loading", TRUE)
    IN [p1 EXCEPT !.aborted = FALSE, !.unloadListener = TRUE, !.timer = TRUE]
\* from the disabling of the controls to the fetch
streamDispatch(p) ==
    LET p1 == updateStatus([p EXCEPT !.disabled = TRUE, !.editable = FALSE, !.output = <<>>],
                           StreamText.streaming, "loading", TRUE)
    IN [p1 EXCEPT !.aborted = FALSE, !.unloadListener = TRUE]

\* outputDiv.textContent += chunk
appendChunk(p, chunk) == [p EXCEPT !.output = p.output \o chunk]

\* a catch block without the AbortError branch
streamCatchNoCancel(p, error) ==
    updateStatus([p EXCEPT !.output = <<StreamText.errPrefix>> \o error.message],
                 <<StreamText.errPrefix>> \o error.message, "error", FALSE)
\* the catch block
streamCatch(p, error) ==
    IF error.name = "AbortError"
    THEN updateStatus([p EXCEPT !.output = StreamText.cancelled],
                      StreamText.cancelStatus, "warning", FALSE)
    ELSE updateStatus([p EXCEPT !.output = <<StreamText.errPrefix>> \o error.message],
                      <<StreamText.errPrefix>> \o error.message, "error", FALSE)

\* a finally block that leaves the beforeunload listener
streamFinallyKeepListener(p) == [p EXCEPT !.disabled = FALSE, !.editable = TRUE]
\* the finally block
streamFinally(p) ==
    [p EXCEPT !.unloadListener = FALSE, !.disabled = FALSE, !.editable = TRUE]

\* a streaming handler with the validation of the single-shot one
HandleStreamModelChecked(p) ==
    LET v == ValidateRegular(p.inputText, SelectedModel(p)) IN
    IF v = "ok"
    THEN /\ page' = streamDispatch(p)
         /\ flow' = [Idle EXCEPT !.pc = "s_fetch", !.text = p.inputText,
                                 !.model = SelectedModel(p), !.provider = p.provider]
         /\ outcome' = "inflight"
    ELSE /\ page' = updateStatus(p, ValidationMsg[v], "error", FALSE)
         /\ flow' = flow
         /\ outcome' = "rejected"
\* handleStreamTranslation, from the click to the fetch
HandleStream(p) ==
    IF ValidateStream(p.inputText) = "ok"
    THEN /\ page' = streamDispatch(p)
         /\ flow' = [Idle EXCEPT !.pc = "s_fetch", !.text = p.inputText,
                                 !.model = SelectedModel(p), !.provider = p.provider]
         /\ outcome' = "inflight"
    ELSE /\ page' = updateStatus(p, ValidationMsg.empty, "error", FALSE)
         /\ flow' = flow
         /\ outcome' = "rejected"

\* the page as the click handler finds it: the click has taken the focus
\* from the input area
AtClick(p) == IF p.focused THEN onblur(p) ELSE p

\* the click handler of the translate button
ClickTranslate ==
    /\ Settled /\ ~page.disabled
    /\ IF AtClick(page).streamingChk THEN HandleStream(AtClick(page))
       ELSE HandleRegular(AtClick(page))
    /\ elapsed' = 0
    /\ stream' = NoStream
    /\ UNCHANGED <<ls, modelLoads, transcripts, bgVars, restVars>>

\* catch and finally run for the error thrown at an await
StreamFails(error) ==
    /\ page' = streamFinally(streamCatch(page, error))
    /\ flow' = Idle
    /\ stream' = NoStream
    /\ outcome' = IF error.name = "AbortError" THEN "cancelled" ELSE "failed"

\* the connection fails before any response
StreamNetworkError ==
    /\ flow.pc = "s_fetch"
    /\ StreamFails(FetchFailed)
    /\ UNCHANGED <<ls, elapsed, modelLoads, transcripts, bgVars, restVars>>

\* the response headers arrive: an OK response will stream `text`, a non-OK
\* one is read whole with response.text()
StreamResponse ==
    /\ flow.pc = "s_fetch"
    /\ \/ \E status \in {x \in Statuses : Ok(x)} : \E text \in BodyTexts :
             /\ flow' = [flow EXCEPT !.pc = "s_read", !.http = status]
             /\ stream' = [text |-> text, wire |-> Encode(text),
                           received |-> <<>>, pending |-> <<>>]
       \/ \E status \in {x \in Statuses : ~Ok(x)} : \E body \in BodiesOf(status) :
             /\ flow' = [flow EXCEPT !.pc = "s_errtext", !.http = status, !.body = body]
             /\ stream' = NoStream
    /\ UNCHANGED <<page, ls, elapsed, modelLoads, transcripts, outcome, bgVars, restVars>>

\* the Error thrown for a non-OK response: JSON.parse(errorText).detail || ...
StreamHttpError(f) ==
    IF f.body.kind = "invalid" THEN JsonInvalid
    ELSE IF f.body.kind = "broken" THEN BodyFailed
    ELSE [name |-> "Error",
          message |-> IF f.body.detail = <<>> THEN StreamText.connectFail
                      ELSE f.body.detail]

\* response.text() of a non-OK response arrives and is parsed
StreamErrorText ==
    /\ flow.pc = "s_errtext" /\ flow.body.kind # "stalled"
    /\ StreamFails(StreamHttpError(flow))
    /\ UNCHANGED <<ls, elapsed, modelLoads, transcripts, bgVars, restVars>>

\* reader.read() yields the next chunk: the transport cuts the bytes on the
\* wire wherever it likes
StreamChunk ==
    /\ flow.pc = "s_read" /\ stream.wire # <<>>
    /\ \E n \in 1..Len(stream.wire) :
          LET value == SubSeq(stream.wire, 1, n)
              d == DecodeChunk(stream.pending, value)
          IN /\ page' = appendChunk(page, d.out)
             /\ stream' = [stream EXCEPT
                              !.wire = SubSeq(stream.wire, n + 1, Len(stream.wire)),
                              !.received = stream.received \o value,
                              !.pending = d.pending]
    /\ UNCHANGED <<ls, flow, elapsed, modelLoads, transcripts, outcome, bgVars, restVars>>

\* reader.read() yields done
StreamEnd ==
    /\ flow.pc = "s_read" /\ stream.wire = <<>>
    /\ page' = streamFinally(updateStatus(page, StreamText.done, "success", FALSE))
    /\ flow' = Idle
    /\ outcome' = "succeeded"
    /\ UNCHANGED <<ls, elapsed, stream, modelLoads, transcripts, bgVars, restVars>>

\* the connection breaks in the middle of the body
StreamReadError ==
    /\ flow.pc = "s_read"
    /\ StreamFails(BodyFailed)
    /\ UNCHANGED <<ls, elapsed, modelLoads, transcripts, bgVars, restVars>>

\* a beforeunload event (the user stays on the page).  With the abortHandler
\* registered, controller.abort() rejects the await the function is
\* suspended at; with no listener nothing runs.
BeforeUnload ==
    /\ Settled
    /\ page' = IF page.unloadListener THEN [page EXCEPT !.aborted = TRUE] ELSE page
    /\ flow' = IF page.unloadListener /\ flow.pc \in {"s_fetch", "s_errtext", "s_read"}
               THEN [flow EXCEPT !.pc = "s_rejected", !.err = AbortError] ELSE flow
    /\ UNCHANGED <<ls, elapsed, stream, modelLoads, transcripts, outcome, bgVars, restVars>>

StreamRejected ==
    /\ flow.pc = "s_rejected"
    /\ StreamFails(flow.err)
    /\ UNCHANGED <<ls, elapsed, modelLoads, transcripts, bgVars, restVars>>

(* --------------------------- background.js ----------------------------- *)
Videos == {"v1", "v2"}
\* the URL the onMessage listener builds for a video
UiUrl(videoId) == <<"translator_ui.html?videoId=", videoId>>
Open(t) == DOMAIN t.urls
\* The handlers in progress, and the bag after one has started, has moved
\* on to its next await, or has finished.
Live == BagToSet(handlers)
Spawned(h) == handlers (+) SetToBag({h})
Finished(h) == handlers (-) SetToBag({h})
Moved(h, g) == (handlers (-) SetToBag({h})) (+) SetToBag({g})
Handler(kind, pc, url, id, via) ==
    [kind |-> kind, pc |-> pc, url |-> url, id |-> id, via |-> via]
Did(op, id, ok, via) == [op |-> op, id |-> id, ok |-> ok, via |-> via]

\* chrome.tabs.update(id, { url: newUrl }): the tab stays where it is
tabsUpdateNoFocus(t, id, newUrl) == [t EXCEPT !.urls[id] = newUrl]
\* chrome.tabs.update(id, { url: newUrl, active: true }) on an open tab
tabsUpdate(t, id, newUrl) == [t EXCEPT !.urls[id] = newUrl, !.active = id]
\* chrome.tabs.create({ url, active: true })
tabsCreate(t, url) ==
    [urls |-> t.urls @@ (t.nextId :> url), active |-> t.nextId, nextId |-> t.nextId + 1]
\* a creation callback that stores nothing
recordTabNever(store, newTabId) == store
\* the callback of chrome.tabs.create in createTranslatorTab
recordTab(store, newTabId) ==
    IF newTabId # 0 THEN [store EXCEPT !.translatorTabId = newTabId] ELSE store
\* where reuseOrCreateTab goes after the storage read and after the lookup
afterGet(translatorTabId) == IF translatorTabId # 0 THEN "lookup" ELSE "create"
afterLookup(found) == IF found THEN "update" ELSE "create"

\* an onRemoved listener that never clears
afterCloseGetNever(tabId, translatorTabId) == "done"
\* where the onRemoved listener goes after the storage read
afterCloseGet(tabId, translatorTabId) ==
    IF tabId = translatorTabId THEN "remove" ELSE "done"

\* The channel of a message once its listener has returned: answered when
\* the listener called sendResponse, kept open for a later answer when it
\* returned true, and ended without an answer otherwise.
ChannelAfter(responded, returned) ==
    IF responded THEN "answered" ELSE IF returned = TRUE THEN "waiting" ELSE "error"

\* The user clicks the button on the YouTube page and the onMessage
\* listener receives a showVideoId message: with a videoId it calls
\* reuseOrCreateTab, which starts the storage read.  The listener takes no
\* sendResponse parameter and returns true.
ShowVideoId(videoId) ==
    /\ tabs.active = YouTubeTab /\ BagCardinality(handlers) < MaxHandlers
    /\ IF videoId # ""
       THEN /\ handlers' = Spawned(Handler("show", "get", UiUrl(videoId), 0, "none"))
            /\ lastTab' = Did("message", 0, TRUE, "none")
       ELSE /\ handlers' = handlers
            /\ lastTab' = Did("message", 0, FALSE, "none")
    /\ channel' = ChannelAfter(FALSE, TRUE)
    /\ UNCHANGED <<tabs, session, uiVars, restVars>>

ShowVideo == \E videoId \in Videos \cup {""} : ShowVideoId(videoId)

\* chrome.storage.session.get resolves in reuseOrCreateTab
ShowGet ==
    \E h \in Live :
       /\ h.kind = "show" /\ h.pc = "get"
       /\ handlers' = Moved(h, [h EXCEPT !.pc = afterGet(session.translatorTabId),
                                         !.id = session.translatorTabId])
       /\ lastTab' = Did("get", session.translatorTabId, session.translatorTabId # 0, "none")
       /\ UNCHANGED <<tabs, session, channel, uiVars, restVars>>

\* chrome.tabs.get settles: resolved when the tab is open, rejected (and
\* caught) when it is not
ShowLookup ==
    \E h \in Live :
       LET found == h.id \in Open(tabs)
           g == [h EXCEPT !.pc = afterLookup(found),
                          !.via = IF found THEN "none" ELSE "lost"]
       IN /\ h.pc = "lookup"
          /\ handlers' = Moved(h, g)
          /\ lastTab' = Did("lookup", h.id, found, g.pc)
          /\ UNCHANGED <<tabs, session, channel, uiVars, restVars>>

\* the browser carries out chrome.tabs.update; on a tab closed meanwhile it
\* fails and nothing listens
ShowUpdate ==
    \E h \in Live :
       /\ h.pc = "update"
       /\ tabs' = IF h.id \in Open(tabs) THEN tabsUpdate(tabs, h.id, h.url) ELSE tabs
       /\ handlers' = Finished(h)
       /\ lastTab' = Did("update", h.id, h.id \in Open(tabs), "none")
       /\ UNCHANGED <<session, channel, uiVars, restVars>>

\* the browser carries out chrome.tabs.create
ShowCreate ==
    \E h \in Live :
       /\ h.pc = "create"
       /\ tabs.nextId <= MaxTabs
       /\ tabs' = tabsCreate(tabs, h.url)
       /\ handlers' = Moved(h, [h EXCEPT !.pc = "record", !.id = tabs.nextId])
       /\ lastTab' = Did("create", tabs.nextId, TRUE, h.via)
       /\ UNCHANGED <<session, channel, uiVars, restVars>>

\* the callback of chrome.tabs.create stores the new tab's id
ShowRecord ==
    \E h \in Live :
       /\ h.pc = "record"
       /\ session' = recordTab(session, h.id)
       /\ handlers' = Finished(h)
       /\ lastTab' = Did("record", h.id, TRUE, h.via)
       /\ UNCHANGED <<tabs, channel, uiVars, restVars>>

\* the user goes back to the YouTube tab
SwitchTab ==
    /\ tabs.active # YouTubeTab
    /\ tabs' = [tabs EXCEPT !.active = YouTubeTab]
    /\ lastTab' = Did("switch", YouTubeTab, TRUE, "none")
    /\ UNCHANGED <<session, handlers, channel, uiVars, restVars>>

\* a tab is closed: the onRemoved listener starts its storage read
TabClosed ==
    /\ BagCardinality(handlers) < MaxHandlers
    /\ \E t \in Open(tabs) \ {YouTubeTab} :
          /\ tabs' = [tabs EXCEPT
                !.urls = [x \in Open(tabs) \ {t} |-> tabs.urls[x]],
                !.active = IF tabs.active = t THEN YouTubeTab ELSE tabs.active]
          /\ handlers' = Spawned(Handler("close", "get", <<>>, t, "none"))
          /\ lastTab' = Did("closed", t, TRUE, "none")
    /\ UNCHANGED <<session, channel, uiVars, restVars>>

\* chrome.storage.session.get resolves in the onRemoved listener
CloseGet ==
    \E h \in Live :
       /\ h.kind = "close" /\ h.pc = "get"
       /\ handlers' = IF afterCloseGet(h.id, session.translatorTabId) = "remove"
                      THEN Moved(h, [h EXCEPT !.pc = "remove"]) ELSE Finished(h)
       /\ lastTab' = Did("closeget", h.id, h.id = session.translatorTabId, "none")
       /\ UNCHANGED <<tabs, session, channel, uiVars, restVars>>

\* chrome.storage.session.remove is carried out
CloseRemove ==
    \E h \in Live :
       /\ h.pc = "remove"
       /\ session' = [session EXCEPT !.translatorTabId = 0]
       /\ handlers' = Finished(h)
       /\ lastTab' = Did("remove", h.id, TRUE, "none")
       /\ UNCHANGED <<tabs, channel, uiVars, restVars>>

\* The channel of a message whose listener returned true ends without a
\* response (the service worker is stopped, or sendResponse is collected):
\* the sender's callback runs with chrome.runtime.lastError set and logs it.
ChannelCloses ==
    /\ channel = "waiting"
    /\ channel' = "error"
    /\ UNCHANGED <<tabs, session, handlers, lastTab, uiVars, restVars>>

(* --------------------------- specifications ---------------------------- *)
\* The single-shot orchestrator: a page opened without a video and with an
\* empty localStorage, the model list, and every way a click on the
\* translate button in single-shot mode can go, second by second.
Init == PageInit({FALSE}, {FreshStore}) /\ BgInit

Next ==
    \/ ModelsResponse \/ SelectModel \/ StatusHide
    \/ ClickTranslate
    \/ Tick \/ TimeoutFires \/ RegularRejected \/ RegularNetworkError
    \/ RegularResponse \/ RegularBody \/ SuccessTimerFires

Spec == Init /\ [][Next]_vars

\* The streaming orchestrator: the page opened in streaming mode.
StreamInit == PageInit({FALSE}, {[FreshStore EXCEPT !.use_streaming = TRUE]}) /\ BgInit

StreamNext ==
    \/ ClickTranslate \/ StatusHide
    \/ StreamNetworkError \/ StreamResponse \/ StreamErrorText \/ StreamChunk
    \/ StreamEnd \/ StreamReadError \/ BeforeUnload \/ StreamRejected

StreamSpec == StreamInit /\ [][StreamNext]_vars

\* The page before a translation: every way it can be opened, what the
\* user does to the input area, the model select and the mode, and a click.
PageNext ==
    \/ Focus \/ Blur \/ EditInput \/ ToggleStreaming \/ SelectModel \/ StatusHide
    \/ ModelsResponse \/ TranscriptResponse
    \/ ClickTranslate \/ RegularNetworkError \/ StreamNetworkError

PageSpecInit == PageInit(BOOLEAN, Stores) /\ BgInit

PageSpec == PageSpecInit /\ [][PageNext]_vars

\* Both orchestrators: the page opened in either mode, the streaming
\* checkbox toggled at any time, with every way a request of either mode
\* can go and beforeunload events at any time.
ModeInit ==
    PageInit({FALSE}, {FreshStore, [FreshStore EXCEPT !.use_streaming = TRUE]}) /\ BgInit

ModeNext ==
    \/ ModelsResponse \/ ToggleStreaming \/ ClickTranslate \/ BeforeUnload
    \/ Tick \/ TimeoutFires \/ RegularRejected \/ RegularNetworkError
    \/ RegularResponse \/ RegularBody \/ SuccessTimerFires
    \/ StreamNetworkError \/ StreamResponse \/ StreamErrorText \/ StreamChunk
    \/ StreamEnd \/ StreamReadError \/ StreamRejected

ModeSpec == ModeInit /\ [][ModeNext]_vars

\* The background tab manager: showVideoId messages, tab closes and tab
\* switches, every storage and tabs call settling on its own.
TabInit == PageInit({FALSE}, {FreshStore}) /\ BgInit

TabNext ==
    \/ ShowVideo \/ ShowGet \/ ShowLookup \/ ShowUpdate \/ ShowCreate \/ ShowRecord
    \/ SwitchTab \/ TabClosed \/ CloseGet \/ CloseRemove

TabSpec == TabInit /\ [][TabNext]_vars

\* The tab manager with one video, under the scheduling the browser gives
\* to the onRemoved listener: the storage calls it has issued settle.
\* Nothing makes the user act.
TabFairNext ==
    \/ ShowVideoId("v1") \/ ShowGet \/ ShowLookup \/ ShowUpdate \/ ShowCreate \/ ShowRecord
    \/ SwitchTab \/ TabClosed \/ CloseGet \/ CloseRemove

TabFairSpec ==
    /\ TabInit /\ [][TabFairNext]_vars
    /\ WF_vars(CloseGet) /\ WF_vars(CloseRemove)

\* The messages of the YouTube page and the channels they wait on.
MsgNext == TabFairNext \/ ChannelCloses
MsgSpec == TabInit /\ [][MsgNext]_vars

\* The content script in one document of the YouTube tab.
ContentNext ==
    \/ ManifestInjection \/ HistoryStateUpdated \/ Mutation \/ ContextInvalidated
    \/ ClickButton
ContentSpec == TabInit /\ [][ContentNext]_vars

\* One run of a start script or of a stop script on a machine in any of
\* the states above.
ScriptInit ==
    /\ PageInit({FALSE}, {FreshStore})
    /\ BgStart({h \in Hosts("start") \cup Hosts("stop") :
                   /\ h.stubborn \subseteq h.alive
                   /\ (h.variant = 2) => ~h.force
                   /\ (h.script = "stop") => (~h.listening /\ ~h.uvicorn)})
ScriptNext ==
    \/ ProcessExits
    \/ StartPortCheck \/ StartPidCheck \/ StartUvicornCheck \/ StartLaunch
    \/ StopRead \/ StopChild \/ StopMain \/ StopCleanup
ScriptSpec == ScriptInit /\ [][ScriptNext]_vars

\* The settings of a page opened with or without a video: the provider
\* select, the timestamp checkbox and the answers to the requests they issue.
SettingsInit ==
    /\ PageInit(BOOLEAN, {FreshStore, [FreshStore EXCEPT !.show_timestamp = TRUE]})
    /\ BgInit
SettingsNext ==
    \/ ChangeProvider \/ ToggleTimestamp \/ ModelsResponse \/ TranscriptResponse
    \/ SelectModel \/ StatusHide
SettingsSpec == SettingsInit /\ [][SettingsNext]_vars

\* The single-shot orchestrator under the scheduling the browser gives: time
\* passes, a due timer fires, a queued reaction runs, and a body that is
\* on its way arrives.  Nothing makes the backend answer.
FairSpec ==
    /\ Spec
    /\ WF_vars(Tick) /\ WF_vars(TimeoutFires)
    /\ WF_vars(RegularRejected) /\ WF_vars(RegularBody)

(* ------------------------------ claims --------------------------------- *)
ContainsSeq(s, sub) ==
    \E i \in 0..(Len(s) - Len(sub)) : SubSeq(s, i + 1, i + Len(sub)) = sub

\* the characters of `text` whose bytes are all among its first n bytes
RECURSIVE CompleteChars(_, _)
CompleteChars(text, n) ==
    IF text = <<>> \/ Len(Utf8Bytes(Head(text))) > n THEN <<>>
    ELSE <<Head(text)>> \o CompleteChars(Tail(text), n - Len(Utf8Bytes(Head(text))))

\* a streamed response has been consumed to its end
StreamDone ==
    flow.pc = "idle" /\ outcome = "succeeded" /\ page.status.msg = StreamText.done

\* C1 (as stated): while a response is streamed, the output area holds
\* exactly the fragments received so far, concatenated in arrival order,
\* and after end-of-stream it holds all of them.
C1_OutputIsFragments ==
    /\ flow.pc = "s_read" => Encode(page.output) = stream.received
    /\ StreamDone => page.output = stream.text

\* C1 (amended): while a response is streamed, the output area holds the
\* characters completed by the fragments received so far, in order: the
\* bytes of a character that a fragment ends in the middle of appear only
\* with the fragment that completes it.  After end-of-stream the output is
\* the whole text.
C1_OutputIsCompleteChars ==
    /\ flow.pc = "s_read" =>
          page.output = CompleteChars(stream.text, Len(stream.received))
    /\ StreamDone => page.output = stream.text

\* a fragment has ended in the middle of a character, after a whole one
C1_Witness ==
    flow.pc = "s_read" /\ stream.pending # <<>> /\ page.output # <<>>

\* C2: a single-shot request is never pending once 180 s have passed; when
\* the 180th second passes without a response the request is aborted, the
\* timeout status is set and the controls are enabled, and the flow ends
\* with the timeout message in the output area and the controls enabled.
C2_TimeoutAborts ==
    /\ flow.pc = "r_fetch" => page.timer /\ elapsed < TimeoutSecs
    /\ flow.pc = "r_rejected" =>
          /\ elapsed = TimeoutSecs /\ page.aborted
          /\ page.status.msg = RegularText.timeoutStatus /\ page.status.type = "error"
          /\ ~page.disabled /\ page.editable
    /\ outcome = "timeout" =>
          /\ page.aborted /\ page.output = RegularText.timedOut
          /\ ~page.disabled /\ page.editable

C2_Witness == outcome = "timeout" /\ flow.pc = "idle"

\* a callback of the request's timers can run: it is registered and no
\* promise reaction is queued before it
TickerCanFire == Settled /\ page.ticker
TimeoutCanFire == Settled /\ page.timer

\* C3: whenever the controls are enabled, no timeout callback and no ticker
\* callback can fire and no /translate call is pending; after the flow has
\* ended both timers are cancelled.
C3_TornDown ==
    /\ ~page.disabled =>
          ~TickerCanFire /\ ~TimeoutCanFire /\ flow.pc \notin {"r_fetch", "r_body"}
    /\ flow.pc = "idle" => ~page.timer /\ ~page.ticker

C3_Witness == outcome = "succeeded" /\ flow.pc = "idle" /\ ~page.disabled

\* C4: every dispatched single-shot request is followed by the controls
\* being enabled again.
C4_ControlsReturn == (outcome = "inflight") ~> ~page.disabled

NoConcreteModel(p) ==
    \/ p.selIndex = 0
    \/ p.options \in {<<ModelLabel.loading>>, <<ModelLabel.none>>, <<ModelLabel.failed>>}

\* C6: a single-shot click with text in the input area but no concrete model
\* selected dispatches nothing and sets the model-selection message.
C6_ModelRejected ==
    [][(/\ ClickTranslate /\ ~page.streamingChk
        /\ Trim(AtClick(page).inputText) # <<>> /\ NoConcreteModel(page)) =>
          /\ flow.pc = "idle" /\ flow' = flow
          /\ page'.status.msg = ValidationMsg.model /\ page'.status.type = "error"
          /\ ~page'.disabled /\ page'.editable]_vars

C6_Witness ==
    /\ outcome = "rejected" /\ page.status.msg = ValidationMsg.model
    /\ page.options = <<ModelLabel.failed>>

\* the error body of a non-OK response has arrived and the chain has run
ErrorRendered ==
    /\ flow.pc = "r_body" /\ ~Ok(flow.http)
    /\ flow.body.kind = "json" /\ flow.body.detail # <<>>
    /\ flow'.pc = "idle"

IsServerErrorMessage(m) == m = RegularText.serverFailed \/ Includes(m, SEOBEO_NAEBU_ORYU)

\* C7: a 400 with a detail puts a message holding '입력 오류' and the detail
\* in the output area; a 500 with a detail puts a server-error message
\* there, which is none of the input-error messages.
C7_StatusMessages ==
    [][ErrorRendered =>
          /\ flow.http = 400 =>
                /\ Includes(page'.output, IPRYEOK_ORYU)
                /\ ContainsSeq(page'.output, flow.body.detail)
          /\ flow.http = 500 =>
                /\ IsServerErrorMessage(page'.output)
                /\ \A d \in Details : page'.output # HttpError(400, d).message]_vars

C7_Witness ==
    outcome = "failed" /\ page.output = <<IPRYEOK_ORYU, ": ", "empty text">>

\* C8: the message rendered for a non-OK response with a detail holds the
\* detail, whatever the status.
C8_DetailSurfaced ==
    [][ErrorRendered => ContainsSeq(page'.output, flow.body.detail)]_vars

\* C9: when the stored tab id resolves to an open tab, the show-video handling
\* goes on to update it and creates nothing; the update sets that tab's
\* location to the UI URL of the new video and brings it to the front, opens
\* no tab, changes no other tab and leaves the stored id as it was.
C9_ReuseTrackedTab ==
    [][ /\ (lastTab'.op = "lookup" /\ lastTab'.ok) =>
              /\ lastTab'.via = "update"
              /\ tabs' = tabs /\ session' = session
        /\ (lastTab'.op = "update" /\ lastTab'.ok) =>
              \E h \in Live :
                 /\ h.pc = "update" /\ h.id = lastTab'.id
                 /\ handlers' = Finished(h)
                 /\ Open(tabs') = Open(tabs) /\ tabs'.nextId = tabs.nextId
                 /\ tabs'.urls[lastTab'.id] = h.url
                 /\ \A t \in Open(tabs) \ {lastTab'.id} : tabs'.urls[t] = tabs.urls[t]
                 /\ tabs'.active = lastTab'.id
                 /\ session' = session
      ]_vars

\* a tracked tab that was in the background has just been updated and focused
C9_Witness ==
    /\ lastTab.op = "update" /\ lastTab.ok
    /\ session.translatorTabId = lastTab.id
    /\ tabs.active = lastTab.id
    /\ \E v \in Videos : tabs.urls[lastTab.id] = UiUrl(v)

\* C10: with no stored tab id, or with a stored id whose lookup fails, the
\* show-video handling goes on to create a tab (the failed lookup is caught
\* and takes the same path); the created tab is a new one, at the UI URL, in
\* front; the creation callback makes its id the stored id.
C10_CreateWhenUntracked ==
    [][ /\ (lastTab'.op = "get" /\ ~lastTab'.ok) =>
              /\ \E h \in Live :
                    /\ h.kind = "show" /\ h.pc = "get"
                    /\ handlers' = Moved(h, [h EXCEPT !.pc = "create", !.id = 0])
              /\ tabs' = tabs /\ session' = session
        /\ (lastTab'.op = "lookup" /\ ~lastTab'.ok) =>
              /\ lastTab'.via = "create"
              /\ \E h \in Live :
                    /\ h.pc = "lookup" /\ h.id = lastTab'.id
                    /\ handlers' = Moved(h, [h EXCEPT !.pc = "create", !.via = "lost"])
              /\ tabs' = tabs /\ session' = session
        /\ lastTab'.op = "create" =>
              \E h \in Live :
                 /\ h.pc = "create"
                 /\ lastTab'.id \notin Open(tabs)
                 /\ Open(tabs') = Open(tabs) \cup {lastTab'.id}
                 /\ tabs'.urls[lastTab'.id] = h.url
                 /\ \A t \in Open(tabs) : tabs'.urls[t] = tabs.urls[t]
                 /\ tabs'.active = lastTab'.id
                 /\ handlers' = Moved(h, [h EXCEPT !.pc = "record", !.id = lastTab'.id])
        /\ lastTab'.op = "record" =>
              /\ session'.translatorTabId = lastTab'.id
              /\ tabs' = tabs
      ]_vars

\* the stored id named a closed tab, and the tab created instead is now stored
C10_Witness ==
    /\ lastTab.op = "record" /\ lastTab.via = "lost"
    /\ session.translatorTabId = lastTab.id
    /\ lastTab.id \in Open(tabs)
    /\ \E v \in Videos : tabs.urls[lastTab.id] = UiUrl(v)

\* the tabs the manager has opened
TranslatorTabs == Open(tabs) \ {YouTubeTab}

\* C11: once every handler has finished, at most one translator tab is open
\* and an open translator tab is the one the stored id names.
C11_OneTranslatorTab ==
    handlers = EmptyBag =>
       /\ Cardinality(TranslatorTabs) <= 1
       /\ \A t \in TranslatorTabs : session.translatorTabId = t

\* C12: a tab closed while the stored id names it leads to the stored id no
\* longer naming it; the close event itself writes nothing; and a listener
\* that reads a stored id other than the closed tab's ends without a write.
C12_ClosedTabCleared ==
    /\ \A t \in (YouTubeTab + 1)..MaxTabs :
          (lastTab.op = "closed" /\ lastTab.id = t /\ session.translatorTabId = t)
             ~> (session.translatorTabId # t)
    /\ [][ /\ (lastTab'.op = "closed") => (session' = session)
           /\ (lastTab'.op = "closeget" /\ ~lastTab'.ok) =>
                 /\ session' = session
                 /\ \E h \in Live :
                       /\ h.kind = "close" /\ h.pc = "get"
                       /\ handlers' = Finished(h)
         ]_vars

\* the tracked tab was closed and its listener has cleared the stored id
C12_Witness ==
    /\ lastTab.op = "remove" /\ lastTab.id \notin Open(tabs)
    /\ session.translatorTabId = 0

\* a streaming request is in flight
Streaming == flow.pc \in {"s_fetch", "s_errtext", "s_read", "s_rejected"}

\* C13: a beforeunload listener is registered exactly while a streaming
\* request is in flight; when the request has ended, however it ended, the
\* listener is gone and the controls are enabled.
C13_ListenerRemoved ==
    /\ page.unloadListener <=> Streaming
    /\ flow.pc = "idle" => ~page.disabled /\ page.editable

\* a streamed response has broken in the middle and the handler has cleaned up
C13_Witness ==
    /\ flow.pc = "idle" /\ outcome = "failed"
    /\ page.output = <<StreamText.errPrefix>> \o BodyFailed.message
    /\ ~page.unloadListener /\ ~page.disabled

\* C14: the handling of a request aborted by beforeunload, wherever it was
\* waiting, ends with the cancellation message in the output area and the
\* cancelled warning as status; no other ending of a request shows them.
C14_CancelledDistinct ==
    [][(Streaming /\ flow'.pc = "idle") =>
          /\ page.aborted =>
                /\ page'.output = StreamText.cancelled
                /\ page'.status.msg = StreamText.cancelStatus
                /\ page'.status.type = "warning"
                /\ outcome' = "cancelled"
          /\ ~page.aborted =>
                /\ page'.output # StreamText.cancelled
                /\ page'.status.type \in {"error", "success"}
                /\ outcome' # "cancelled"]_vars

\* a request aborted by beforeunload has been handled
C14_Witness ==
    /\ outcome = "cancelled" /\ flow.pc = "idle" /\ page.aborted
    /\ page.output = StreamText.cancelled /\ page.status.type = "warning"

\* the body of a non-OK streaming response has arrived and has been handled
StreamErrorRendered ==
    /\ flow.pc = "s_errtext" /\ flow.body.kind \in {"json", "invalid"}
    /\ ~page.aborted /\ flow'.pc = "idle"

\* C15: a streaming request that fails without being cancelled shows an
\* error message; for a non-OK response the message is the error prefix
\* and the detail of the body, or the connection-failed text when the body
\* carries no detail.
C15_StreamErrorReason ==
    [][ /\ (Streaming /\ ~page.aborted /\ outcome' = "failed") =>
              /\ page'.status.type = "error"
              /\ Head(page'.output) = StreamText.errPrefix
              /\ Len(page'.output) > 1
        /\ StreamErrorRendered =>
              page'.output = <<StreamText.errPrefix>> \o
                 (IF flow.body.kind = "json" /\ flow.body.detail # <<>>
                  THEN flow.body.detail ELSE StreamText.connectFail)
      ]_vars

\* C16: a click in streaming mode with text in the input area dispatches the
\* request whatever the model select shows; the same click in single-shot
\* mode with no concrete model dispatches nothing.
C16_StreamSkipsModelCheck ==
    [][(ClickTranslate /\ Trim(AtClick(page).inputText) # <<>>) =>
          /\ page.streamingChk =>
                flow'.pc = "s_fetch" /\ page'.disabled /\ outcome' = "inflight"
          /\ (~page.streamingChk /\ NoConcreteModel(page)) =>
                flow' = flow /\ ~page'.disabled /\ outcome' = "rejected"]_vars

\* a streaming request is in flight with the load-failed label selected
C16_Witness ==
    /\ flow.pc = "s_fetch" /\ page.disabled
    /\ page.options = <<ModelLabel.failed>> /\ flow.model = ModelLabel.failed

\* a single-shot request is in flight
SingleShot == flow.pc \in {"r_fetch", "r_body", "r_rejected"}

\* C17: a streaming request never has a timeout armed and a single-shot
\* request never has a beforeunload listener; a request becomes aborted only
\* by the timeout callback when it is single-shot and only by a
\* beforeunload event when it is streaming.
C17_OneCancellationSource ==
    /\ [](Streaming => ~page.timer /\ page.unloadListener)
    /\ [](SingleShot => ~page.unloadListener)
    /\ [][(~page.aborted /\ page'.aborted) =>
             \/ flow.pc = "r_fetch" /\ TimeoutFires
             \/ flow.pc \in {"s_fetch", "s_errtext", "s_read"} /\ BeforeUnload]_vars

\* a streaming request has been aborted by beforeunload
C17_Witness == flow.pc = "s_rejected" /\ page.aborted /\ ~page.timer

\* how a request that was in flight can have ended; the timeout is a failure
Terminal == {"succeeded", "failed", "cancelled", "timeout"}

\* C18: a request starts only by a click; a click either is rejected (no
\* request, controls enabled) or puts a request in flight (controls
\* disabled); a request in flight keeps the controls disabled at every
\* point where a task can run, and ends in one step with one terminal
\* outcome, no request pending and the controls enabled; the outcome then
\* stays until the next click.
C18_ClickStateMachine ==
    /\ [](outcome = "inflight" => flow.pc # "idle" /\ (Settled => page.disabled))
    /\ [](outcome # "inflight" => flow.pc = "idle" /\ ~page.disabled /\ page.editable)
    /\ [][ /\ ClickTranslate =>
                /\ outcome' \in {"rejected", "inflight"}
                /\ (outcome' = "rejected") => (flow' = flow /\ ~page'.disabled)
                /\ (outcome' = "inflight") => (flow'.pc \in {"r_fetch", "s_fetch"})
           /\ (flow.pc = "idle" /\ flow'.pc # "idle") => ClickTranslate
           /\ (outcome' # outcome /\ outcome' \in {"rejected", "inflight"}) => ClickTranslate
           /\ (outcome' # outcome /\ outcome' \notin {"rejected", "inflight"}) =>
                 (outcome = "inflight" /\ outcome' \in Terminal)
         ]_vars

\* a streaming request has failed and the page is idle again
C18_Witness ==
    /\ outcome = "failed" /\ flow.pc = "idle" /\ ~page.disabled
    /\ page.streamingChk /\ page.status.type = "error"

\* C19: when /models answers with a non-empty list, the options are the
\* list in its order, and the selected option is the previously used model
\* when the list holds it and the first option otherwise.
C19_ModelSelection ==
    [][\A r \in modelLoads : \A models \in ModelLists \ {<<>>} :
          ModelsReply(r, models) =>
             /\ page'.options = models
             /\ page'.selIndex = IF IndexOf(models, r.sel) # 0
                                 THEN IndexOf(models, r.sel) ELSE 1]_vars

\* C20: when /models answers with the empty list, for either provider, the
\* model select holds the one 'no models available' label and the status is
\* the 'no models' error: not the loading label, not the load-failed label,
\* not a list of models, and none of the messages of a failed load.
C20_EmptyListState ==
    [][\A r \in modelLoads :
          ModelsReply(r, <<>>) =>
             /\ page'.options = <<ModelLabel.none>>
             /\ page'.options \notin
                   {<<ModelLabel.loading>>, <<ModelLabel.failed>>} \cup ModelLists
             /\ page'.status.msg = ModelStatus.none /\ page'.status.type = "error"
             /\ page'.status.msg \notin
                   {ModelStatus.loading, ModelStatus.loaded, ModelStatus.failed,
                    ModelStatus.notOk, <<"Failed to ", FETCH>>}]_vars

\* the list for the provider read from localStorage came back empty
C20_Witness ==
    /\ page.options = <<ModelLabel.none>> /\ page.status.msg = ModelStatus.none
    /\ page.provider = "openai" /\ modelLoads = {}

(* ------------------------ the model control ---------------------------- *)
\* the states of the model select
Loading(p) == p.options = <<ModelLabel.loading>>
Populated(p) ==
    \E provider \in Providers : p.options \in ModelListsOf(provider) \ {<<>>}
Empty(p) == p.options = <<ModelLabel.none>>
Failed(p) == p.options = <<ModelLabel.failed>>
\* a step in which a load of the model list is answered
LoadAnswered == modelLoads' # modelLoads /\ modelLoads' \subseteq modelLoads

\* C21: The model control is loading, populated, empty or failed.  Every
\* load of the model list (the one at page load and the one each provider
\* change starts) puts the control into the loading state, every answer to a
\* load puts it into exactly one of populated, empty and failed, and nothing
\* else changes the control's options.
C21_LoadCycle ==
    /\ [](Loading(page) \/ Populated(page) \/ Empty(page) \/ Failed(page))
    /\ [][ /\ (ChangeProvider) => (Loading(page') /\ ~(modelLoads' \subseteq modelLoads))
           /\ (LoadAnswered) =>
                 (/\ ~Loading(page')
                  /\ Cardinality({o \in {"populated", "empty", "failed"} :
                         \/ o = "populated" /\ Populated(page')
                         \/ o = "empty" /\ Empty(page')
                         \/ o = "failed" /\ Failed(page')}) = 1)
           /\ (page'.options # page.options) => (ChangeProvider \/ LoadAnswered)
           /\ (page'.provider # page.provider) => (ChangeProvider) ]_vars
\* the provider was changed, and the load it started was answered with models
C21_Witness ==
    /\ modelLoads = {} /\ page.provider = "openai" /\ page.options = <<MGpt>>
    /\ ls.lastUsedProvider = NULL

(* ----------------------- the timestamp checkbox ------------------------ *)
\* C22: Every toggle of the timestamp checkbox stores the new value of the
\* flag.  On a page opened with a video it issues exactly one transcript
\* request, which carries that new value; on a page without a video it
\* issues none.  Nothing else issues a transcript request, so switching the
\* flag on and then off issues two requests, the first with true and the
\* second with false.
C22_ToggleRequests ==
    [][ /\ (ToggleTimestamp) =>
              (/\ page'.timestampChk = ~page.timestampChk
               /\ ls'.show_timestamp = page'.timestampChk
               /\ IF page.hasVideo
                  THEN \E r \in transcripts' \ transcripts :
                          /\ transcripts' = transcripts \cup {r}
                          /\ r.preserve = page'.timestampChk
                  ELSE transcripts' = transcripts)
        /\ (~(transcripts' \subseteq transcripts)) => (ToggleTimestamp) ]_vars
\* the flag was switched on and then off while no answer arrived: the
\* request with true and, after it, the request with false are in flight
C22_Witness ==
    /\ page.hasVideo /\ ~page.timestampChk /\ ~ls.show_timestamp
    /\ transcripts = {[preserve |-> TRUE, n |-> 1], [preserve |-> FALSE, n |-> 2]}

(* ------------------------ transcript failures -------------------------- *)
\* the reasons the inline error may carry: a detail the backend reported,
\* the generic text, or the reason the connection could not be made
TranscriptReasons ==
    (TranscriptDetails \ {<<>>}) \cup {<<TranscriptText.generic>>, FetchFailed.message}

RegularSucceeds == flow.pc = "r_body" /\ outcome' = "succeeded"

\* C24: A single-shot request takes the provider and the model selected at
\* the click.  When it succeeds the translated text is rendered, the stored
\* last-used provider and model become those two, whatever is selected by
\* then, and the controls are enabled again.  No other step (a rejected
\* click, an HTTP error, a network error, the timeout) changes the stored
\* provider and model.
C24_SuccessRemembers ==
    [][ /\ (ClickTranslate /\ outcome' = "inflight" /\ ~page.streamingChk) =>
              (flow'.provider = page.provider /\ flow'.model = SelectedModel(page))
        /\ (RegularSucceeds) =>
              (/\ page'.output = flow.body.translated
               /\ ls'.lastUsedProvider = flow.provider
               /\ ls'.lastUsedModel = flow.model
               /\ ~page'.disabled /\ page'.editable)
        /\ (~RegularSucceeds) =>
              (/\ ls'.lastUsedProvider = ls.lastUsedProvider
               /\ ls'.lastUsedModel = ls.lastUsedModel) ]_vars
\* a request sent with the first model succeeded after the user had moved
\* the selection to the second one
C24_Witness ==
    /\ outcome = "succeeded" /\ page.output \in Translations
    /\ ls.lastUsedProvider = "gemini" /\ ls.lastUsedModel = M1
    /\ SelectedModel(page) = M2 /\ ~page.disabled

(* ------------------- the answer to a showVideoId message --------------- *)
\* C25: No showVideoId message ends with a messaging error in the sending
\* page's response callback: the background answers every message it
\* receives.
C25_Acknowledged == channel # "error"

(* ------------------------- the progress ticker ------------------------- *)
LastPhase == Len(progressSteps) - 1
\* the flow as it would be had the ticker never fired
Unticked(f) == [f EXCEPT !.phase = 0]
\* the step in which a single-shot request ends, and what its handlers
\* render for a flow f
RegularEnds == flow.pc \in {"r_fetch", "r_body", "r_rejected"} /\ flow' = Idle
RenderedFor(f) ==
    IF f.pc = "r_rejected" THEN UserFriendlyMessage(f.err)
    ELSE IF f.pc = "r_fetch" THEN UserFriendlyMessage(FetchFailed)
    ELSE IF BodyError(f) = NoErr THEN f.body.translated
    ELSE UserFriendlyMessage(BodyError(f))

\* C26: The progress phase of a single-shot request starts at the first
\* label, each tick of the ticker advances it by exactly one until it is
\* the last phase, where it stays, and it is never beyond the last phase.
\* What the request ends with (the text rendered and the way it ended) is
\* what it would be had no tick happened.
C26_ProgressPhase ==
    /\ [](flow.phase \in 0..LastPhase)
    /\ [][ /\ (ClickTranslate /\ outcome' = "inflight") =>
                 (flow'.phase = 0 /\ page'.progress.text = progressSteps[1])
           /\ (Tick) =>
                 (/\ flow'.phase = IF flow.phase < LastPhase THEN flow.phase + 1
                                   ELSE LastPhase
                  /\ page'.progress.text = progressSteps[flow'.phase + 1]
                  /\ flow' = [flow EXCEPT !.phase = flow'.phase]
                  /\ outcome' = outcome /\ page'.output = page.output)
           /\ (flow'.phase # flow.phase) =>
                 (Tick \/ RegularEnds \/ (ClickTranslate /\ outcome' = "inflight"))
           /\ (RegularEnds) => (page'.output = RenderedFor(Unticked(flow))) ]_vars
\* the ticker has fired more often than there are phases and the request,
\* still waiting, shows the last label
C26_Witness ==
    /\ flow.pc = "r_fetch" /\ elapsed > Len(progressSteps)
    /\ flow.phase = LastPhase /\ page.progress.text = progressSteps[Len(progressSteps)]

(* ----------------------- one request at a time ------------------------- *)
\* C27: A click is accepted only while no translation is in flight, so at
\* most one is in flight at any time: from the dispatch of a request until
\* its flow ends the button is disabled whenever a task can run.  An
\* accepted click that passes validation starts exactly one flow, streaming
\* when the streaming checkbox is checked at the click and single-shot when
\* it is not; toggling the checkbox later does not change the flow.
C27_OneFlow ==
    /\ []((SingleShot \/ Streaming) /\ Settled => page.disabled)
    /\ [][ /\ (ClickTranslate) =>
                 (/\ flow.pc = "idle" /\ ~page.disabled
                  /\ (outcome' = "inflight") =>
                        (/\ page'.disabled
                         /\ flow'.pc = IF page.streamingChk THEN "s_fetch" ELSE "r_fetch")
                  /\ (outcome' # "inflight") => (flow' = flow))
           /\ (ToggleStreaming) => (flow' = flow /\ outcome' = outcome)
           /\ (SingleShot /\ ~SingleShot') => (flow'.pc = "idle")
           /\ (Streaming /\ ~Streaming') => (flow'.pc = "idle") ]_vars
\* a streaming request is in flight while the checkbox, toggled after the
\* click, says single-shot
C27_Witness ==
    /\ flow.pc = "s_read" /\ ~page.streamingChk /\ page.disabled
    /\ outcome = "inflight"

(* -------------------- the close handler and newer tabs ----------------- *)
\* C28: The remove of the onRemoved listener clears the stored id only
\* while it is the id of the tab that was closed: whatever runs between the
\* listener's read and its remove, the id of another tab, recorded
\* meanwhile for a tab that is open, stays stored.
C28_NewerTabStaysTracked ==
    [][ (CloseRemove) => (session.translatorTabId \in {0, lastTab'.id}) ]_vars

(* ------------------------ overlapping requests ------------------------- *)
\* C29: Once every transcript request has been answered, a transcript that
\* is displayed is one fetched with the value the timestamp flag has now,
\* in whatever order the answers arrived.
C29_CurrentTranscript ==
    (page.hasVideo /\ transcripts = {}) =>
       \A preserve \in BOOLEAN : \A t \in TranscriptsOf(preserve) :
          (page.inputText = <<"{title} - YouTube", "{url}">> \o t)
             => (preserve = page.timestampChk)

\* C30: Once every load of the model list has been answered, a list of
\* models the control shows is a list of the provider that is selected now,
\* in whatever order the answers arrived.
C30_CurrentProviderModels ==
    (modelLoads = {} /\ Populated(page)) => (page.options \in ModelListsOf(page.provider))

(* ------------------- the status after a failed request ----------------- *)
\* C31: When a single-shot request ends in failure (an HTTP error, a
\* network error or the timeout), the status indicator is left with the
\* error message of that failure and the type error.
C31_StatusAfterFailure ==
    [][ (RegularEnds /\ outcome' \in {"failed", "timeout"}) =>
           (/\ page'.status.type = "error"
            /\ page'.status.msg = RenderedFor(flow)) ]_vars

(* ----------------------- what is sent for translation ------------------ *)
\* the texts the page itself puts into the input area
OwnNotices ==
    {PlaceholderText, TranscriptLoadingNotice}
    \cup {<<"{title} - YouTube", "{url}", TranscriptText.failedPrefix>> \o error.message :
             error \in TranscriptErrors}

\* C32: In neither mode is a request dispatched with a text that is only
\* the page's own placeholder, its notice that the transcript is loading,
\* or its notice that the transcript could not be loaded.
C32_SendsUserText ==
    (flow.pc # "idle") => (flow.text \notin OwnNotices)

(* ------------------------ the injected button -------------------------- *)
\* C33 as stated: at most one button and at most one observer, and a click
\* sends one message when the URL has a video id and none otherwise.
C33_ClickAlwaysSends ==
    /\ [](yt.buttons <= 1 /\ yt.observers <= 1)
    /\ [][ (ClickButton) => (yt'.sent = IF yt.url = "watch?v" THEN 1 ELSE 0) ]_vars
\* C33: However often the content script is injected and whatever the DOM
\* does, the document has at most one translator button and at most one
\* observer; a click sends one showVideoId message when the URL has a video
\* id and the extension context is valid, and none otherwise.
C33_OneButtonOneObserver ==
    /\ [](yt.buttons <= 1 /\ yt.observers <= 1)
    /\ [][ (ClickButton) =>
              (yt'.sent = IF yt.url = "watch?v" /\ yt.valid THEN 1 ELSE 0) ]_vars
\* the script was injected several times, the button was removed and made
\* again, and a click on a watch page has sent its message
C33_Witness ==
    /\ yt.injections >= 2 /\ yt.flag /\ yt.buttons = 1 /\ yt.observers = 1
    /\ yt.url = "watch?v" /\ yt.sent = 1

(* --------------------------- C34 ---------------------------------------- *)
\* C34: when a start script is run without -Force while the PID file names
\* a running process, the script ends with the 'already running' error, it
\* has started no new server process, and the PID file is as it was.
C34_AlreadyRunningAborts ==
    (/\ host.script = "start"
     /\ host.pc = "done"
     /\ ~host.force
     /\ host.pidFile0 # 0
     /\ host.pidFile0 \in host.alive)
    => (/\ host.exit = "error"
        /\ host.message = "already running"
        /\ ~host.started
        /\ host.pidFile = host.pidFile0)

(* --------------------------- C35 ---------------------------------------- *)
\* the stop script has tried every descendant it found before the main process
DescendantsFirst ==
    \A i \in 1..Len(host.attempted) :
        (host.attempted[i] = host.pidFile0)
        => (i = Len(host.attempted) /\ host.todo = <<>>)
\* C35: the stop script stops every descendant before the main process, and
\* when it has exited the PID file is removed only if the main server
\* process no longer runs: if the main process could not be stopped, the PID
\* file still names it.
C35_PidFileFollowsMain ==
    (host.script = "stop")
    => (/\ DescendantsFirst
        /\ (host.pc = "done" /\ host.pidFile0 # 0)
           => (/\ (host.pidFile = 0) => (host.pidFile0 \notin host.alive)
               /\ (host.pidFile0 \in host.alive) => (host.pidFile = host.pidFile0)))

====
